---- MODULE Spec2Model ----
(***************************************************************************)
(* Model of the PaddlePWA service worker (src/sw.js): the fetch listener   *)
(* and its routing, the four caching strategies, the install race, and the *)
(* background-sync helpers.                                                *)
(*                                                                         *)
(* URLs are sequences of tokens.  A URL string is cut at every "/" (each   *)
(* "/" is a token of its own) and around the marker words "firebase" and   *)
(* "googleapis", so String.prototype.includes on the strings of this model *)
(* is exactly the contiguous-subsequence test on their token sequences.    *)
(***************************************************************************)
EXTENDS Integers, Sequences, FiniteSets, TLC

\* ------------------------------------------------------------------------
\* Bounds of the model
\* ------------------------------------------------------------------------
MaxFetch == 2      \* fetch events delivered to the listener in Spec
MaxRouted == 1     \* fetch events delivered to the listener in SpecRoute
MaxCalls == 1      \* direct strategy invocations in SpecStrategy
MaxSyncs == 3      \* sync events fired by the platform in SpecSync
MaxNetworkFirst == 2   \* networkFirst invocations in SpecNetworkFirst
MaxRevalidate == 2     \* staleWhileRevalidate invocations in SpecRevalidate
MaxMessages == 2       \* message events in SpecMessage
MaxActiveCalls == 2    \* strategy invocations after activation in SpecActive
MaxRetries == 2        \* POSTs the sync endpoint fails before it recovers in SpecTournamentSync

\* ------------------------------------------------------------------------
\* Configuration constants (sw.js lines 1-23)
\* ------------------------------------------------------------------------
CACHE_NAME == "padel-tournament-v2.1.0"
STATIC_CACHE == "padel-static-v2.1.0"
DYNAMIC_CACHE == "padel-dynamic-v2.1.0"
OLD_CACHE == "padel-static-v2.0.0"   \* a generation left by an earlier version
OLDER_CACHE == "padel-dynamic-v1.0.0" \* another one

OFFLINE_PAGE == <<"/", "offline.html">>

STATIC_ASSETS ==
  << <<"/">>,
     <<"/", "index.html">>,
     <<"/", "leaderboard.html">>,
     <<"/", "manifest.json">>,
     <<"/", "offline.html">>,
     <<"https:", "/", "/", "cdnjs.cloudflare.com", "/", "ajax", "/", "libs", "/",
       "font-awesome", "/", "6.0.0-beta3", "/", "css", "/", "all.min.css">>,
     <<"https:", "/", "/", "www.gstatic.com", "/", "firebase", "js", "/", "9.22.0", "/",
       "firebase", "-app.js">>,
     <<"https:", "/", "/", "www.gstatic.com", "/", "firebase", "js", "/", "9.22.0", "/",
       "firebase", "-database.js">> >>

DYNAMIC_ASSETS ==
  << <<"https:", "/", "/", "www.gstatic.com", "/", "firebase", "js", "/">>,
     <<"https:", "/", "/", "cdnjs.cloudflare.com", "/">>,
     <<"https:", "/", "/", "fonts.", "googleapis", ".com", "/">>,
     <<"https:", "/", "/", "fonts.gstatic.com", "/">> >>

\* The origin the worker is served from; relative URLs resolve against it.
Origin == <<"https:", "/", "/", "padel.example">>

\* The request URLs the environment issues, by index.
Urls ==
  << Origin \o <<"/">>,
     Origin \o <<"/", "index.html">>,
     Origin \o <<"/", "leaderboard.html">>,
     Origin \o <<"/", "manifest.json">>,
     Origin \o <<"/", "offline.html">>,
     Origin \o <<"/", "tournament.html">>,
     Origin \o <<"/", "icons", "/", "icon-192x192.png">>,
     Origin \o <<"/", "api", "/", "sync-tournaments">>,
     <<"https:", "/", "/", "www.gstatic.com", "/", "firebase", "js", "/", "9.22.0", "/",
       "firebase", "-app.js">>,
     <<"https:", "/", "/", "www.gstatic.com", "/", "firebase", "js", "/", "9.22.0", "/",
       "firebase", "-database.js">>,
     <<"https:", "/", "/", "www.gstatic.com", "/", "firebase", "js", "/", "9.22.0", "/",
       "firebase", "-auth.js">>,
     <<"https:", "/", "/", "cdnjs.cloudflare.com", "/", "ajax", "/", "libs", "/",
       "font-awesome", "/", "6.0.0-beta3", "/", "css", "/", "all.min.css">>,
     <<"https:", "/", "/", "fonts.", "googleapis", ".com", "/", "css">>,
     <<"https:", "/", "/", "padel-db.", "firebase", "io.com", "/", "tournaments.json">>,
     <<"https:", "/", "/", "maps.", "googleapis", ".com", "/", "maps">> >>

UrlIds == 1..Len(Urls)

\* Index of the absolute URL a string resolves to (new Request(string)).
Resolve(u) == IF Len(u) > 0 /\ u[1] = "https:" THEN u ELSE Origin \o u

UrlId(u) == CHOOSE i \in UrlIds : Urls[i] = Resolve(u)

PageUrl == UrlId(<<"/", "tournament.html">>)
OfflineUrl == UrlId(OFFLINE_PAGE)

\* STATIC_ASSETS.map((url) => new Request(url, ...)): the keys addAll stores.
StaticUrlIds == { UrlId(STATIC_ASSETS[i]) : i \in 1..Len(STATIC_ASSETS) }

\* ------------------------------------------------------------------------
\* String helpers
\* ------------------------------------------------------------------------
\* String.prototype.includes: pat occurs in s as a contiguous piece.
includes(s, pat) ==
  \E i \in 1..(Len(s) - Len(pat) + 1) : SubSeq(s, i, i + Len(pat) - 1) = pat

\* Array.prototype.some over a tuple.
some(arr, P(_)) == \E i \in 1..Len(arr) : P(arr[i])

\* ------------------------------------------------------------------------
\* Requests and responses
\* ------------------------------------------------------------------------
Methods == {"GET", "POST"}
Kinds ==
  { [destination |-> "document", mode |-> "navigate"],
    [destination |-> "image", mode |-> "no-cors"],
    [destination |-> "", mode |-> "cors"] }

Request(m, u, k) ==
  [method |-> m, url |-> u, destination |-> k.destination, mode |-> k.mode]

AllRequests == { Request(m, u, k) : m \in Methods, u \in UrlIds, k \in Kinds }

\* The requests of Spec: GET and POST for one page that is not a static asset.
PageRequests == { Request(m, PageUrl, k) : m \in Methods, k \in {[destination |-> "document", mode |-> "navigate"]} }

Bodies == {"v1", "v2"}

NetOk(b) == [status |-> 200, body |-> b]
NetNotOk == [status |-> 404, body |-> "Not Found"]
Offline503 == [status |-> 503, body |-> "Offline"]
AppOffline503 == [status |-> 503, body |-> "App is offline"]
undefined == [status |-> 0, body |-> "undefined"]
TypeError == [status |-> 0, body |-> "TypeError"]
Timeout == [status |-> 0, body |-> "Network timeout"]
pending == [status |-> 0, body |-> "pending"]

\* if (networkResponse) in place of if (networkResponse.ok).
truthy(response) == response # undefined

\* Response.ok
ok(response) == response.status \in 200..299

NetOutcomes == { NetOk(b) : b \in Bodies } \cup {NetNotOk, TypeError}


\* ------------------------------------------------------------------------
\* State
\* ------------------------------------------------------------------------
VARIABLES
  cacheNames,   \* Cache Store: names of the existing generations, in creation order
  entries,      \* Cache Store: entries[name][url] is the stored response, or undefined
  procs,        \* one record per strategy invocation, in invocation order
  events,       \* one record per fetch event the listener has handled
  install,      \* progress of the install listener's promises
  activate,     \* progress of the activate listener's promises
  control,      \* message events handled and what the message listener did
  localStore,   \* Local Data Store: the batch kept for each data domain
  syncTags,     \* Retry Scheduler: the tags registered and not yet fired
  syncs,        \* one record per sync function invocation
  messages      \* messages broadcast to the open sessions, in order

storeVars == <<cacheNames, entries>>
fetchVars == <<procs, events>>
lifeVars == <<install, activate, control>>
syncVars == <<localStore, syncTags, syncs, messages>>
vars == <<cacheNames, entries, procs, events, install, activate, control,
          localStore, syncTags, syncs, messages>>

Generations == {STATIC_CACHE, DYNAMIC_CACHE, CACHE_NAME, OLD_CACHE, OLDER_CACHE}

Strategies == {"cacheFirst", "networkFirst", "staleWhileRevalidate", "networkFirstWithOffline"}

Range(seq) == { seq[i] : i \in 1..Len(seq) }

\* ------------------------------------------------------------------------
\* Cache Store API
\* ------------------------------------------------------------------------
\* cache.match(request) on one generation.
cacheMatch(name, url) ==
  IF name \in Range(cacheNames) THEN entries[name][url] ELSE undefined

\* caches.match(request): the first generation, in creation order, that
\* holds an entry for the request.
cachesMatch(url) ==
  LET hits == { i \in 1..Len(cacheNames) : entries[cacheNames[i]][url] # undefined }
  IN  IF hits = {} THEN undefined
      ELSE entries[cacheNames[CHOOSE i \in hits : \A j \in hits : i <= j]][url]

\* caches.open(name): the generation is created when it does not exist.
cachesOpen(name) ==
  IF name \in Range(cacheNames) THEN cacheNames ELSE Append(cacheNames, name)

\* The entries of the store after cache.put(request, response) on a generation.
cachePut(name, url, response) ==
  IF name \in Range(cacheNames)
  THEN [entries EXCEPT ![name][url] = response]
  ELSE entries

\* caches.delete(name): the generation and its entries are gone.
cachesDelete(name) ==
  /\ cacheNames' = SelectSeq(cacheNames, LAMBDA cacheName : cacheName # name)
  /\ entries' = [entries EXCEPT ![name] = [url \in UrlIds |-> undefined]]

\* ------------------------------------------------------------------------
\* Routing (fetch listener, sw.js lines 88-114)
\* ------------------------------------------------------------------------
\* The strategy the listener hands to respondWith, "none" when it returns
\* without calling respondWith.
routeNoMethodCheck(request) ==
  LET url == Urls[request.url] IN
  IF some(STATIC_ASSETS, LAMBDA asset : includes(url, asset)) THEN "cacheFirst"
  ELSE IF some(DYNAMIC_ASSETS, LAMBDA pattern : includes(url, pattern)) THEN "staleWhileRevalidate"
  ELSE IF includes(url, <<"firebase">>) \/ includes(url, <<"googleapis">>) THEN "networkFirst"
  ELSE IF request.destination = "document" THEN "networkFirstWithOffline"
  ELSE "networkFirst"

routeStaticUnanswered(request) ==
  LET url == Urls[request.url] IN
  IF request.method # "GET" THEN "none"
  ELSE IF some(STATIC_ASSETS, LAMBDA asset : includes(url, asset)) THEN "none"
  ELSE IF some(DYNAMIC_ASSETS, LAMBDA pattern : includes(url, pattern)) THEN "staleWhileRevalidate"
  ELSE IF includes(url, <<"firebase">>) \/ includes(url, <<"googleapis">>) THEN "networkFirst"
  ELSE IF request.destination = "document" THEN "networkFirstWithOffline"
  ELSE "networkFirst"

route(request) ==
  LET url == Urls[request.url] IN
  IF request.method # "GET" THEN "none"
  ELSE IF some(STATIC_ASSETS, LAMBDA asset : includes(url, asset)) THEN "cacheFirst"
  ELSE IF some(DYNAMIC_ASSETS, LAMBDA pattern : includes(url, pattern)) THEN "staleWhileRevalidate"
  ELSE IF includes(url, <<"firebase">>) \/ includes(url, <<"googleapis">>) THEN "networkFirst"
  ELSE IF request.destination = "document" THEN "networkFirstWithOffline"
  ELSE "networkFirst"

\* ------------------------------------------------------------------------
\* Strategy invocations
\* ------------------------------------------------------------------------
\* The invocation record of strategy(request) at its first suspension point:
\* cacheFirst awaits caches.match, staleWhileRevalidate awaits caches.open,
\* networkFirst and networkFirstWithOffline have issued their fetch.
NewProc(strategy, request) ==
  [ strategy |-> strategy,
    url |-> request.url,
    mode |-> request.mode,
    pc |-> CASE strategy = "cacheFirst" -> "match"
             [] strategy = "networkFirst" -> "race"
             [] strategy = "staleWhileRevalidate" -> "open"
             [] strategy = "networkFirstWithOffline" -> "fetch",
    cachedResponse |-> pending,
    networkResponse |-> pending,
    offlineResponse |-> pending,
    lateResponse |-> pending,
    fetches |-> IF strategy \in {"networkFirst", "networkFirstWithOffline"} THEN 1 ELSE 0,
    returned |-> FALSE,
    result |-> pending,
    put |-> "none",
    putCache |-> "none",
    after |-> { q \in 1..Len(procs) : procs[q].returned } ]

ProcIds == 1..Len(procs)

\* The invocation returns (its promise resolves) with a value.
Return(proc, value) == [proc EXCEPT !.returned = TRUE, !.result = value]

\* fetch listener: sw.js lines 88-114.
fetchListener(request) ==
  LET strategy == route(request) IN
  /\ events' = Append(events, [ request |-> request,
                                respondWith |-> IF strategy = "none" THEN 0 ELSE 1,
                                strategy |-> strategy ])
  /\ procs' = IF strategy = "none" THEN procs ELSE Append(procs, NewProc(strategy, request))
  /\ UNCHANGED <<storeVars, lifeVars, syncVars>>

\* ------------------------------------------------------------------------
\* cacheFirst (sw.js lines 117-134)
\* ------------------------------------------------------------------------
\* line 119-122: await caches.match(request); a hit is returned.
cacheFirstMatch(p) ==
  /\ procs[p].strategy = "cacheFirst" /\ procs[p].pc = "match"
  /\ LET cachedResponse == cachesMatch(procs[p].url) IN
     procs' = [procs EXCEPT ![p] =
       IF cachedResponse # undefined
       THEN [Return(@, cachedResponse) EXCEPT !.cachedResponse = cachedResponse, !.pc = "done"]
       ELSE [@ EXCEPT !.cachedResponse = undefined, !.pc = "fetch", !.fetches = @ + 1]]
  /\ UNCHANGED <<storeVars, events, lifeVars, syncVars>>

\* line 124-125, 129-133: await fetch(request) settles.
cacheFirstFetch(p, outcome) ==
  /\ procs[p].strategy = "cacheFirst" /\ procs[p].pc = "fetch"
  /\ procs' = [procs EXCEPT ![p] =
       IF outcome = TypeError
       THEN [Return(@, Offline503) EXCEPT !.networkResponse = outcome, !.pc = "done"]
       ELSE IF ok(outcome)
       THEN [@ EXCEPT !.networkResponse = outcome, !.pc = "open"]
       ELSE [Return(@, outcome) EXCEPT !.networkResponse = outcome, !.pc = "done"]]
  /\ UNCHANGED <<storeVars, events, lifeVars, syncVars>>

\* Line 126 opening the static generation of the earlier version.
cacheFirstPutOpensOldGeneration(p) ==
  /\ procs[p].strategy = "cacheFirst" /\ procs[p].pc = "open"
  /\ cacheNames' = cachesOpen(OLD_CACHE)
  /\ procs' = [procs EXCEPT ![p] =
       [Return(@, @.networkResponse) EXCEPT !.put = "pending", !.putCache = OLD_CACHE, !.pc = "done"]]
  /\ UNCHANGED <<entries, events, lifeVars, syncVars>>

\* line 126-129: await caches.open(STATIC_CACHE); cache.put is started and
\* not awaited; the network response is returned.
cacheFirstPut(p) ==
  /\ procs[p].strategy = "cacheFirst" /\ procs[p].pc = "open"
  /\ cacheNames' = cachesOpen(STATIC_CACHE)
  /\ procs' = [procs EXCEPT ![p] =
       [Return(@, @.networkResponse) EXCEPT !.put = "pending", !.putCache = STATIC_CACHE, !.pc = "done"]]
  /\ UNCHANGED <<entries, events, lifeVars, syncVars>>

\* A cache.put that a strategy started completes: the entry is overwritten.
cachePutSettles(p) ==
  /\ procs[p].put = "pending"
  /\ entries' = cachePut(procs[p].putCache, procs[p].url, procs[p].networkResponse)
  /\ procs' = [procs EXCEPT ![p].put = "done"]
  /\ UNCHANGED <<cacheNames, events, lifeVars, syncVars>>

\* ------------------------------------------------------------------------
\* networkFirst (sw.js lines 136-153)
\* ------------------------------------------------------------------------
\* line 138-143, 147-149: the fetch settles before the 5000 ms timer.
networkFirstFetch(p, outcome) ==
  /\ procs[p].strategy = "networkFirst" /\ procs[p].pc = "race"
  /\ procs' = [procs EXCEPT ![p] =
       IF outcome = TypeError
       THEN [@ EXCEPT !.networkResponse = outcome, !.pc = "fallback"]
       ELSE IF ok(outcome)
       THEN [@ EXCEPT !.networkResponse = outcome, !.pc = "open"]
       ELSE [Return(@, outcome) EXCEPT !.networkResponse = outcome, !.pc = "done"]]
  /\ UNCHANGED <<storeVars, events, lifeVars, syncVars>>

\* line 140, 148-149: the 5000 ms timer fires before the fetch settles; the
\* race rejects with Error("Network timeout").
networkFirstTimeout(p) ==
  /\ procs[p].strategy = "networkFirst" /\ procs[p].pc = "race"
  /\ procs' = [procs EXCEPT ![p] = [@ EXCEPT !.networkResponse = Timeout, !.pc = "fallback"]]
  /\ UNCHANGED <<storeVars, events, lifeVars, syncVars>>

\* The late fetch awaited once more after the timeout: its response
\* replaces what the invocation returns.
networkFirstLateWins(p, outcome) ==
  /\ procs[p].strategy = "networkFirst"
  /\ procs[p].networkResponse = Timeout /\ procs[p].lateResponse = pending
  /\ procs' = [procs EXCEPT ![p] =
       IF outcome = TypeError
       THEN [@ EXCEPT !.lateResponse = outcome]
       ELSE [Return(@, outcome) EXCEPT !.lateResponse = outcome]]
  /\ UNCHANGED <<storeVars, events, lifeVars, syncVars>>

\* line 139: the fetch that lost the race settles; nothing awaits it.
networkFirstLate(p, outcome) ==
  /\ procs[p].strategy = "networkFirst"
  /\ procs[p].networkResponse = Timeout /\ procs[p].lateResponse = pending
  /\ procs' = [procs EXCEPT ![p].lateResponse = outcome]
  /\ UNCHANGED <<storeVars, events, lifeVars, syncVars>>

\* Lines 144-147 without line 145: the response is returned and nothing is
\* put.
networkFirstPutNotStarted(p) ==
  /\ procs[p].strategy = "networkFirst" /\ procs[p].pc = "open"
  /\ cacheNames' = cachesOpen(DYNAMIC_CACHE)
  /\ procs' = [procs EXCEPT ![p] = [Return(@, @.networkResponse) EXCEPT !.pc = "done"]]
  /\ UNCHANGED <<entries, events, lifeVars, syncVars>>

\* line 144-147: await caches.open(DYNAMIC_CACHE); cache.put is started and
\* not awaited; the network response is returned.
networkFirstPut(p) ==
  /\ procs[p].strategy = "networkFirst" /\ procs[p].pc = "open"
  /\ cacheNames' = cachesOpen(DYNAMIC_CACHE)
  /\ procs' = [procs EXCEPT ![p] =
       [Return(@, @.networkResponse) EXCEPT !.put = "pending", !.putCache = DYNAMIC_CACHE, !.pc = "done"]]
  /\ UNCHANGED <<entries, events, lifeVars, syncVars>>

\* line 150-151: await caches.match(request); cachedResponse || 503.
networkFirstFallback(p) ==
  /\ procs[p].strategy = "networkFirst" /\ procs[p].pc = "fallback"
  /\ LET cachedResponse == cachesMatch(procs[p].url) IN
     procs' = [procs EXCEPT ![p] =
       [Return(@, IF cachedResponse # undefined THEN cachedResponse ELSE Offline503)
          EXCEPT !.cachedResponse = cachedResponse, !.pc = "done"]]
  /\ UNCHANGED <<storeVars, events, lifeVars, syncVars>>

\* ------------------------------------------------------------------------
\* staleWhileRevalidate (sw.js lines 155-169)
\* ------------------------------------------------------------------------
\* line 156: await caches.open(DYNAMIC_CACHE).
staleWhileRevalidateOpen(p) ==
  /\ procs[p].strategy = "staleWhileRevalidate" /\ procs[p].pc = "open"
  /\ cacheNames' = cachesOpen(DYNAMIC_CACHE)
  /\ procs' = [procs EXCEPT ![p].pc = "match"]
  /\ UNCHANGED <<entries, events, lifeVars, syncVars>>

\* Line 168 as "return await fetchPromise || cachedResponse": a hit is
\* not returned before the fetch settles.
staleWhileRevalidateMatchAwaitsFetch(p) ==
  /\ procs[p].strategy = "staleWhileRevalidate" /\ procs[p].pc = "match"
  /\ LET cachedResponse == cacheMatch(DYNAMIC_CACHE, procs[p].url) IN
     procs' = [procs EXCEPT ![p] =
       [@ EXCEPT !.cachedResponse = cachedResponse, !.pc = "fetch", !.fetches = @ + 1]]
  /\ UNCHANGED <<storeVars, events, lifeVars, syncVars>>

\* line 157-159, 168: await cache.match(request) on the DYNAMIC generation;
\* the fetch is issued; a cached response is returned at once, otherwise the
\* invocation resolves with fetchPromise.
staleWhileRevalidateMatch(p) ==
  /\ procs[p].strategy = "staleWhileRevalidate" /\ procs[p].pc = "match"
  /\ LET cachedResponse == cacheMatch(DYNAMIC_CACHE, procs[p].url) IN
     procs' = [procs EXCEPT ![p] =
       IF cachedResponse # undefined
       THEN [Return(@, cachedResponse)
               EXCEPT !.cachedResponse = cachedResponse, !.pc = "fetch", !.fetches = @ + 1]
       ELSE [@ EXCEPT !.cachedResponse = undefined, !.pc = "fetch", !.fetches = @ + 1]]
  /\ UNCHANGED <<storeVars, events, lifeVars, syncVars>>

\* line 159-166: the fetch settles; fetchPromise resolves with the network
\* response, or with cachedResponse when the fetch rejected.
staleWhileRevalidateFetch(p, outcome) ==
  /\ procs[p].strategy = "staleWhileRevalidate" /\ procs[p].pc = "fetch"
  /\ LET fetchPromise == IF outcome = TypeError THEN procs[p].cachedResponse ELSE outcome
         settled == [procs[p] EXCEPT !.networkResponse = outcome, !.pc = "done",
                                     !.put = IF outcome # TypeError /\ ok(outcome) THEN "pending" ELSE "none",
                                     !.putCache = IF outcome # TypeError /\ ok(outcome) THEN DYNAMIC_CACHE ELSE "none"]
     IN procs' = [procs EXCEPT ![p] =
          IF procs[p].returned THEN settled ELSE Return(settled, fetchPromise)]
  /\ UNCHANGED <<storeVars, events, lifeVars, syncVars>>

\* ------------------------------------------------------------------------
\* networkFirstWithOffline (sw.js lines 171-198)
\* ------------------------------------------------------------------------
\* A promise object, as an operand of ||.
Promise == [status |-> 0, body |-> "Promise"]

\* a || b: a when a is truthy.  Of the values of this model only undefined
\* is falsy; a promise object is truthy whatever it settles to.
or(a, b) == IF a # undefined THEN a ELSE b

\* line 173-174, 178-179: await fetch(request) settles.
networkFirstWithOfflineFetch(p, outcome) ==
  /\ procs[p].strategy = "networkFirstWithOffline" /\ procs[p].pc = "fetch"
  /\ procs' = [procs EXCEPT ![p] =
       IF outcome = TypeError
       THEN [@ EXCEPT !.networkResponse = outcome, !.pc = "fallback"]
       ELSE IF ok(outcome)
       THEN [@ EXCEPT !.networkResponse = outcome, !.pc = "open"]
       ELSE [Return(@, outcome) EXCEPT !.networkResponse = outcome, !.pc = "done"]]
  /\ UNCHANGED <<storeVars, events, lifeVars, syncVars>>

\* line 175-178: await caches.open(DYNAMIC_CACHE); cache.put is started and
\* not awaited; the network response is returned.
networkFirstWithOfflinePut(p) ==
  /\ procs[p].strategy = "networkFirstWithOffline" /\ procs[p].pc = "open"
  /\ cacheNames' = cachesOpen(DYNAMIC_CACHE)
  /\ procs' = [procs EXCEPT ![p] =
       [Return(@, @.networkResponse) EXCEPT !.put = "pending", !.putCache = DYNAMIC_CACHE, !.pc = "done"]]
  /\ UNCHANGED <<entries, events, lifeVars, syncVars>>

\* line 180-196: await caches.match(request); a hit is returned; a miss of
\* a navigation returns caches.match(OFFLINE_PAGE) || new Response(...), any
\* other miss returns the 503.
networkFirstWithOfflineFallback(p) ==
  /\ procs[p].strategy = "networkFirstWithOffline" /\ procs[p].pc = "fallback"
  /\ LET cachedResponse == cachesMatch(procs[p].url)
         returnValue == or(Promise, AppOffline503)
     IN procs' = [procs EXCEPT ![p] =
          IF cachedResponse # undefined
          THEN [Return(@, cachedResponse) EXCEPT !.cachedResponse = cachedResponse, !.pc = "done"]
          ELSE IF procs[p].mode = "navigate"
          THEN IF returnValue = Promise
               THEN [@ EXCEPT !.cachedResponse = undefined, !.pc = "offline"]
               ELSE [Return(@, returnValue) EXCEPT !.cachedResponse = undefined, !.pc = "done"]
          ELSE [Return(@, Offline503) EXCEPT !.cachedResponse = undefined, !.pc = "done"]]
  /\ UNCHANGED <<storeVars, events, lifeVars, syncVars>>

\* line 188: the returned caches.match(OFFLINE_PAGE) settles and the
\* invocation resolves with its value.
networkFirstWithOfflineOffline(p) ==
  /\ procs[p].strategy = "networkFirstWithOffline" /\ procs[p].pc = "offline"
  /\ LET offlineResponse == cachesMatch(OfflineUrl) IN
     procs' = [procs EXCEPT ![p] =
       [Return(@, offlineResponse) EXCEPT !.offlineResponse = offlineResponse, !.pc = "done"]]
  /\ UNCHANGED <<storeVars, events, lifeVars, syncVars>>

\* ------------------------------------------------------------------------
\* install listener (sw.js lines 26-59)
\* ------------------------------------------------------------------------
\* install.pc follows the main promise chain: "open" (caches.open pending),
\* "addAll" (cache.addAll pending), "skipWaiting" (self.skipWaiting pending),
\* "resolved", "rejected".  install.waitUntil is the state of the
\* Promise.race handed to event.waitUntil; install.timer the 10000 ms timer.

\* Promise.race: the first arm to settle settles the race.
race(current, settlement) == IF current = "pending" THEN settlement ELSE current

\* line 26-58: the listener starts caches.open, sets the timer and hands the
\* race to waitUntil.
installListener ==
  /\ install.pc = "idle"
  /\ install' = [install EXCEPT !.pc = "open", !.waitUntil = "pending", !.timer = "set"]
  /\ UNCHANGED <<storeVars, fetchVars, syncVars, activate, control>>

\* line 32-34: caches.open(STATIC_CACHE) resolves.
installOpen ==
  /\ install.pc = "open"
  /\ cacheNames' = cachesOpen(STATIC_CACHE)
  /\ install' = [install EXCEPT !.pc = "addAll"]
  /\ UNCHANGED <<entries, fetchVars, syncVars, activate, control>>

\* The then-callback of line 34 without its return: the chain goes on to
\* skipWaiting while nothing has been stored.
installAddAllNotAwaited(body) ==
  /\ install.pc = "addAll"
  /\ install' = [install EXCEPT !.pc = "skipWaiting", !.body = body]
  /\ UNCHANGED <<storeVars, fetchVars, syncVars, activate, control>>

\* line 36-47: cache.addAll fetched every static asset with an ok response
\* and stored them all; the next callback calls self.skipWaiting().
installAddAll(body) ==
  /\ install.pc = "addAll"
  /\ entries' = [entries EXCEPT ![STATIC_CACHE] =
       [url \in UrlIds |-> IF url \in StaticUrlIds /\ STATIC_CACHE \in Range(cacheNames)
                           THEN NetOk(body) ELSE @[url]]]
  /\ install' = [install EXCEPT !.pc = "skipWaiting", !.body = body]
  /\ UNCHANGED <<cacheNames, fetchVars, syncVars, activate, control>>

\* line 36: one of addAll's fetches failed or was not ok; addAll rejects,
\* stores nothing, and the main chain rejects.
installAddAllRejects ==
  /\ install.pc = "addAll"
  /\ install' = [install EXCEPT !.pc = "rejected", !.waitUntil = race(@, "rejected")]
  /\ UNCHANGED <<storeVars, fetchVars, syncVars, activate, control>>

\* line 47: self.skipWaiting() resolves and with it the main chain.
installSkipWaiting ==
  /\ install.pc = "skipWaiting"
  /\ install' = [install EXCEPT !.pc = "resolved", !.waitUntil = race(@, "fulfilled")]
  /\ UNCHANGED <<storeVars, fetchVars, syncVars, activate, control>>

\* Line 54 as a rejection of the timeout arm.
installTimeoutRejects ==
  /\ install.timer = "set"
  /\ install' = [install EXCEPT !.timer = "fired", !.waitUntil = race(@, "rejected")]
  /\ UNCHANGED <<storeVars, fetchVars, syncVars, activate, control>>

\* line 51-56: the timer fires and resolves the timeout arm.
installTimeout ==
  /\ install.timer = "set"
  /\ install' = [install EXCEPT !.timer = "fired", !.waitUntil = race(@, "fulfilled")]
  /\ UNCHANGED <<storeVars, fetchVars, syncVars, activate, control>>

\* ------------------------------------------------------------------------
\* Activate event (sw.js lines 62-85)
\* ------------------------------------------------------------------------
\* activate.pc: "idle", "keys" (caches.keys pending), "delete" (the mapped
\* caches.delete promises pending), "activated".  activate.claim is the state
\* of self.clients.claim(), activate.waitUntil that of the outer Promise.all.
\* startNames and startEntries record the store as the listener found it.

\* line 62-84: the listener starts caches.keys() and self.clients.claim()
\* and hands the Promise.all of the two to waitUntil.
activateListener ==
  /\ activate.pc = "idle"
  /\ activate' = [activate EXCEPT !.pc = "keys", !.claim = "pending", !.waitUntil = "pending",
                                  !.startNames = cacheNames, !.startEntries = entries]
  /\ UNCHANGED <<storeVars, fetchVars, syncVars, install, control>>

\* The test of line 72 without its third comparison.
activateKeysForgetsUmbrella ==
  /\ activate.pc = "keys"
  /\ activate' = [activate EXCEPT
       !.pc = "delete",
       !.names = cacheNames,
       !.deleting = { cacheName \in Range(cacheNames) :
                        cacheName # STATIC_CACHE /\ cacheName # DYNAMIC_CACHE }]
  /\ UNCHANGED <<storeVars, fetchVars, syncVars, install, control>>

\* line 67-77: caches.keys() resolves; the map starts caches.delete for every
\* name that is none of STATIC_CACHE, DYNAMIC_CACHE, CACHE_NAME.
activateKeys ==
  /\ activate.pc = "keys"
  /\ activate' = [activate EXCEPT
       !.pc = "delete",
       !.names = cacheNames,
       !.deleting = { cacheName \in Range(cacheNames) :
                        cacheName # STATIC_CACHE /\ cacheName # DYNAMIC_CACHE
                          /\ cacheName # CACHE_NAME }]
  /\ UNCHANGED <<storeVars, fetchVars, syncVars, install, control>>

\* line 74: one of the started caches.delete(cacheName) completes.
activateDelete(cacheName) ==
  /\ activate.pc = "delete"
  /\ cacheName \in activate.deleting
  /\ cachesDelete(cacheName)
  /\ activate' = [activate EXCEPT !.deleting = @ \ {cacheName}]
  /\ UNCHANGED <<fetchVars, syncVars, install, control>>

\* line 81: self.clients.claim() resolves.
activateClaim ==
  /\ activate.claim = "pending"
  /\ activate' = [activate EXCEPT !.claim = "done"]
  /\ UNCHANGED <<storeVars, fetchVars, syncVars, install, control>>

\* line 65-82: the inner Promise.all resolves when every delete has, the
\* outer one when the inner one and clients.claim() have.
activateSettles ==
  /\ activate.pc = "delete"
  /\ activate.deleting = {}
  /\ activate.claim = "done"
  /\ activate' = [activate EXCEPT !.pc = "activated", !.waitUntil = "fulfilled"]
  /\ UNCHANGED <<storeVars, fetchVars, syncVars, install, control>>

\* ------------------------------------------------------------------------
\* Message event (sw.js lines 261-271) and clearAllCaches (lines 353-357)
\* ------------------------------------------------------------------------
\* A message event: present is whether event.data is an object, type its
\* type field ("undefined" when it has none), ports the length of
\* event.ports.
MessageTypes == {"SKIP_WAITING", "GET_VERSION", "CLEAR_CACHE", "PING", "undefined"}

MessageEvents ==
  { [present |-> FALSE, type |-> "undefined", ports |-> n] : n \in 0..1 }
    \cup { [present |-> TRUE, type |-> type, ports |-> n] : type \in MessageTypes, n \in 0..1 }

\* control.clears holds the clearAllCaches invocations: pc is "keys"
\* (caches.keys pending), "delete" (the deletes pending) or "done"; names
\* the deletes still pending, enumerated what caches.keys() resolved to.
ClearIds == 1..Len(control.clears)

NewClear == [pc |-> "keys", names |-> {}, enumerated |-> {}]

\* The listener reading event.data.type without testing event.data first.
messageListenerNoDataTest(event) ==
  /\ control' =
       LET handled == [control EXCEPT !.handled = @ + 1, !.event = event] IN
       IF ~event.present THEN [handled EXCEPT !.errors = @ + 1]
       ELSE IF event.type = "SKIP_WAITING" THEN [handled EXCEPT !.skipWaiting = @ + 1]
       ELSE IF event.type = "GET_VERSION"
       THEN IF event.ports > 0
            THEN [handled EXCEPT !.replies = Append(@, [version |-> CACHE_NAME])]
            ELSE [handled EXCEPT !.errors = @ + 1]
       ELSE IF event.type = "CLEAR_CACHE"
       THEN [handled EXCEPT !.clears = Append(@, NewClear)]
       ELSE handled
  /\ UNCHANGED <<storeVars, fetchVars, syncVars, install, activate>>

\* line 261-271.  SKIP_WAITING calls self.skipWaiting(); GET_VERSION posts
\* the version on event.ports[0] (a TypeError when there is no port);
\* CLEAR_CACHE starts clearAllCaches(); anything else falls through.
messageListener(event) ==
  /\ control' =
       LET handled == [control EXCEPT !.handled = @ + 1, !.event = event] IN
       IF event.present /\ event.type = "SKIP_WAITING" THEN [handled EXCEPT !.skipWaiting = @ + 1]
       ELSE IF event.present /\ event.type = "GET_VERSION"
       THEN IF event.ports > 0
            THEN [handled EXCEPT !.replies = Append(@, [version |-> CACHE_NAME])]
            ELSE [handled EXCEPT !.errors = @ + 1]
       ELSE IF event.present /\ event.type = "CLEAR_CACHE"
       THEN [handled EXCEPT !.clears = Append(@, NewClear)]
       ELSE handled
  /\ UNCHANGED <<storeVars, fetchVars, syncVars, install, activate>>

\* Line 355 with the name test of the activate listener.
clearAllCachesKeysSparesCurrent(c) ==
  /\ control.clears[c].pc = "keys"
  /\ control' = [control EXCEPT !.clears[c] =
       [pc |-> "delete",
        names |-> { cacheName \in Range(cacheNames) :
                      cacheName # STATIC_CACHE /\ cacheName # DYNAMIC_CACHE
                        /\ cacheName # CACHE_NAME },
        enumerated |-> Range(cacheNames)]]
  /\ UNCHANGED <<storeVars, fetchVars, syncVars, install, activate>>

\* line 354-355: caches.keys() resolves; caches.delete is started for every
\* name.
clearAllCachesKeys(c) ==
  /\ control.clears[c].pc = "keys"
  /\ control' = [control EXCEPT !.clears[c] =
       [pc |-> "delete", names |-> Range(cacheNames), enumerated |-> Range(cacheNames)]]
  /\ UNCHANGED <<storeVars, fetchVars, syncVars, install, activate>>

\* line 355: one of the started caches.delete(cacheName) completes.
clearAllCachesDelete(c, cacheName) ==
  /\ control.clears[c].pc = "delete"
  /\ cacheName \in control.clears[c].names
  /\ cachesDelete(cacheName)
  /\ control' = [control EXCEPT !.clears[c].names = @ \ {cacheName}]
  /\ UNCHANGED <<fetchVars, syncVars, install, activate>>

\* line 355-356: the Promise.all of the deletes resolves and the function
\* returns.
clearAllCachesSettles(c) ==
  /\ control.clears[c].pc = "delete"
  /\ control.clears[c].names = {}
  /\ control' = [control EXCEPT !.clears[c].pc = "done"]
  /\ UNCHANGED <<storeVars, fetchVars, syncVars, install, activate>>

\* ------------------------------------------------------------------------
\* Background sync (sw.js lines 201-209, 283-365)
\* ------------------------------------------------------------------------
Domains == {"tournaments", "players"}

TagOf(domain) == IF domain = "tournaments" THEN "sync-tournament-data" ELSE "sync-player-data"

SyncTags == { TagOf(domain) : domain \in Domains }

PostOutcomes == { [status |-> 200, body |-> "synced"], [status |-> 500, body |-> "error"], TypeError }

\* getStoredData(key), line 345-351.  The function of the source is a stub
\* that resolves [] for every key; it stands for the Local Data Store, and
\* here it reads the batch that store keeps for the key.
getStoredData(key) == localStore[key]

\* page side, triggerBackgroundSync: both tags are registered.
triggerBackgroundSync ==
  /\ syncTags' = syncTags \cup SyncTags
  /\ UNCHANGED <<storeVars, fetchVars, lifeVars, localStore, syncs, messages>>

NewSync(domain) ==
  [ domain |-> domain, pc |-> "read", batch |-> <<>>, response |-> pending,
    posts |-> 0, registered |-> "none", broadcast |-> FALSE ]

\* line 201-209: the platform fires a registered tag; the listener starts the
\* sync function of the tag.
syncListener(tag) ==
  /\ tag \in syncTags
  /\ syncTags' = syncTags \ {tag}
  /\ syncs' = Append(syncs, NewSync(CHOOSE domain \in Domains : TagOf(domain) = tag))
  /\ UNCHANGED <<storeVars, fetchVars, lifeVars, localStore, messages>>

\* Lines 289-292 and 322-325 taken out: whatever was read is POSTed.
syncReadNoEmptyCheck(i) ==
  /\ syncs[i].pc = "read"
  /\ LET batch == getStoredData(syncs[i].domain) IN
     syncs' = [syncs EXCEPT ![i] =
       [@ EXCEPT !.batch = batch.items, !.pc = "post", !.posts = @ + 1]]
  /\ UNCHANGED <<storeVars, fetchVars, lifeVars, localStore, syncTags, messages>>

\* line 288-301 and 321-333: await getStoredData; a batch that is absent or
\* empty (!batch || batch.length === 0) returns, any other batch is POSTed.
syncRead(i) ==
  /\ syncs[i].pc = "read"
  /\ LET batch == getStoredData(syncs[i].domain) IN
     syncs' = [syncs EXCEPT ![i] =
       IF ~batch.present \/ Len(batch.items) = 0
       THEN [@ EXCEPT !.pc = "done"]
       ELSE [@ EXCEPT !.batch = batch.items, !.pc = "post", !.posts = @ + 1]]
  /\ UNCHANGED <<storeVars, fetchVars, lifeVars, localStore, syncTags, messages>>

\* The catch of lines 310-314 without its sync.register call.
syncTournamentDataNoRetry(i, outcome) ==
  /\ syncs[i].domain = "tournaments" /\ syncs[i].pc = "post"
  /\ IF outcome # TypeError /\ ok(outcome)
     THEN /\ messages' = Append(messages, [type |-> "SYNC_SUCCESS", data |-> "tournaments"])
          /\ syncs' = [syncs EXCEPT ![i] = [@ EXCEPT !.response = outcome, !.pc = "done", !.broadcast = TRUE]]
          /\ UNCHANGED syncTags
     ELSE /\ syncs' = [syncs EXCEPT ![i] = [@ EXCEPT !.response = outcome, !.pc = "done"]]
          /\ UNCHANGED <<syncTags, messages>>
  /\ UNCHANGED <<storeVars, fetchVars, lifeVars, localStore>>

\* line 303-314: the POST of syncTournamentData settles.  An ok response is
\* broadcast; any other response throws; the catch registers the retry tag.
syncTournamentData(i, outcome) ==
  /\ syncs[i].domain = "tournaments" /\ syncs[i].pc = "post"
  /\ IF outcome # TypeError /\ ok(outcome)
     THEN /\ messages' = Append(messages, [type |-> "SYNC_SUCCESS", data |-> "tournaments"])
          /\ syncs' = [syncs EXCEPT ![i] = [@ EXCEPT !.response = outcome, !.pc = "done", !.broadcast = TRUE]]
          /\ UNCHANGED syncTags
     ELSE /\ syncTags' = syncTags \cup {"sync-tournament-data"}
          /\ syncs' = [syncs EXCEPT ![i] =
               [@ EXCEPT !.response = outcome, !.pc = "done", !.registered = "sync-tournament-data"]]
          /\ UNCHANGED messages
  /\ UNCHANGED <<storeVars, fetchVars, lifeVars, localStore>>

\* line 335-342: the POST of syncPlayerData settles.  An ok response is
\* broadcast; a response that is not ok falls through; a rejected fetch is
\* caught and the retry tag registered.
syncPlayerData(i, outcome) ==
  /\ syncs[i].domain = "players" /\ syncs[i].pc = "post"
  /\ IF outcome = TypeError
     THEN /\ syncTags' = syncTags \cup {"sync-player-data"}
          /\ syncs' = [syncs EXCEPT ![i] =
               [@ EXCEPT !.response = outcome, !.pc = "done", !.registered = "sync-player-data"]]
          /\ UNCHANGED messages
     ELSE IF ok(outcome)
     THEN /\ messages' = Append(messages, [type |-> "SYNC_SUCCESS", data |-> "players"])
          /\ syncs' = [syncs EXCEPT ![i] = [@ EXCEPT !.response = outcome, !.pc = "done", !.broadcast = TRUE]]
          /\ UNCHANGED syncTags
     ELSE /\ syncs' = [syncs EXCEPT ![i] = [@ EXCEPT !.response = outcome, !.pc = "done"]]
          /\ UNCHANGED <<syncTags, messages>>
  /\ UNCHANGED <<storeVars, fetchVars, lifeVars, localStore>>

\* ------------------------------------------------------------------------
\* Initial Cache Store
\* ------------------------------------------------------------------------
\* The store persists across worker runs and is shared with the page, so the
\* worker starts on any store.  An entry that predates the run carries a body
\* naming the generation it was stored in.
InitialBody(name) ==
  CASE name = STATIC_CACHE -> "static-0"
    [] name = DYNAMIC_CACHE -> "dynamic-0"
    [] name = CACHE_NAME -> "umbrella-0"
    [] OTHER -> "old-0"

StoredUrls == {PageUrl, OfflineUrl}

\* Sequences without repetition over subsets of a set of names.
Orders(names) ==
  { seq \in UNION { [1..n -> names] : n \in 0..Cardinality(names) } :
      \A i, j \in 1..Len(seq) : i # j => seq[i] # seq[j] }

InitStore(names) ==
  /\ cacheNames \in Orders(names)
  /\ \E holds \in SUBSET (names \X StoredUrls) :
       entries = [ name \in Generations |-> [ url \in UrlIds |->
                     IF name \in Range(cacheNames) /\ <<name, url>> \in holds
                     THEN NetOk(InitialBody(name)) ELSE undefined ] ]

\* ------------------------------------------------------------------------
\* Spec: the fetch path of the worker as the platform drives it
\* ------------------------------------------------------------------------
NotActivating ==
  [ pc |-> "idle", names |-> <<>>, deleting |-> {}, claim |-> "none", waitUntil |-> "none",
    startNames |-> <<>>, startEntries |-> <<>> ]

NoMessages ==
  [ handled |-> 0, event |-> [present |-> FALSE, type |-> "undefined", ports |-> 0],
    skipWaiting |-> 0, replies |-> <<>>, errors |-> 0, clears |-> <<>> ]

NotInstalling == [pc |-> "idle", waitUntil |-> "none", timer |-> "unset", body |-> "none"]

Idle ==
  /\ procs = <<>>
  /\ events = <<>>
  /\ install = NotInstalling
  /\ activate = NotActivating
  /\ control = NoMessages
  /\ syncTags = {}
  /\ syncs = <<>>
  /\ messages = <<>>

EmptyLocalStore ==
  localStore = [domain \in {"tournaments", "players"} |-> [present |-> TRUE, items |-> <<>>]]

Init ==
  /\ InitStore({STATIC_CACHE, DYNAMIC_CACHE})
  /\ EmptyLocalStore
  /\ Idle

FetchEvent ==
  /\ Len(events) < MaxFetch
  /\ \E request \in PageRequests : fetchListener(request)

Next ==
  \/ FetchEvent
  \/ \E p \in ProcIds : cacheFirstMatch(p)
  \/ \E p \in ProcIds, outcome \in NetOutcomes : cacheFirstFetch(p, outcome)
  \/ \E p \in ProcIds : cacheFirstPut(p)
  \/ \E p \in ProcIds : cachePutSettles(p)

Spec == Init /\ [][Next]_vars

\* SpecRoute: one fetch event for every request of the universe.
RouteEvent ==
  /\ Len(events) < MaxRouted
  /\ \E request \in AllRequests : fetchListener(request)

NextRoute ==
  \/ RouteEvent
  \/ \E p \in ProcIds : cacheFirstMatch(p)
  \/ \E p \in ProcIds, outcome \in NetOutcomes : cacheFirstFetch(p, outcome)
  \/ \E p \in ProcIds : cacheFirstPut(p)
  \/ \E p \in ProcIds : cachePutSettles(p)

InitRoute ==
  /\ InitStore({STATIC_CACHE})
  /\ EmptyLocalStore
  /\ Idle

SpecRoute == InitRoute /\ [][NextRoute]_vars

\* ------------------------------------------------------------------------
\* SpecStrategy: every strategy function invoked on its own, on any store
\* ------------------------------------------------------------------------
CallRequests ==
  { Request("GET", PageUrl, k) : k \in { [destination |-> "document", mode |-> "navigate"],
                                         [destination |-> "", mode |-> "cors"] } }

\* strategy(request) is called.
Call(strategy, request) ==
  /\ procs' = Append(procs, NewProc(strategy, request))
  /\ UNCHANGED <<storeVars, events, lifeVars, syncVars>>

CallStrategy ==
  /\ Len(procs) < MaxCalls
  /\ \E strategy \in Strategies, request \in CallRequests : Call(strategy, request)

NextStrategy ==
  \/ CallStrategy
  \/ \E p \in ProcIds : cacheFirstMatch(p)
  \/ \E p \in ProcIds, outcome \in NetOutcomes : cacheFirstFetch(p, outcome)
  \/ \E p \in ProcIds : cacheFirstPut(p)
  \/ \E p \in ProcIds, outcome \in NetOutcomes : networkFirstFetch(p, outcome)
  \/ \E p \in ProcIds : networkFirstTimeout(p)
  \/ \E p \in ProcIds, outcome \in NetOutcomes : networkFirstLate(p, outcome)
  \/ \E p \in ProcIds : networkFirstPut(p)
  \/ \E p \in ProcIds : networkFirstFallback(p)
  \/ \E p \in ProcIds : staleWhileRevalidateOpen(p)
  \/ \E p \in ProcIds : staleWhileRevalidateMatch(p)
  \/ \E p \in ProcIds, outcome \in NetOutcomes : staleWhileRevalidateFetch(p, outcome)
  \/ \E p \in ProcIds, outcome \in NetOutcomes : networkFirstWithOfflineFetch(p, outcome)
  \/ \E p \in ProcIds : networkFirstWithOfflinePut(p)
  \/ \E p \in ProcIds : networkFirstWithOfflineFallback(p)
  \/ \E p \in ProcIds : networkFirstWithOfflineOffline(p)
  \/ \E p \in ProcIds : cachePutSettles(p)

SpecStrategy == Init /\ [][NextStrategy]_vars

\* ------------------------------------------------------------------------
\* SpecNetworkFirst: concurrent networkFirst invocations, with the event
\* loop running every continuation whose promise has settled
\* ------------------------------------------------------------------------
\* The API request networkFirst is called with; it reads no request field
\* but the URL.
ApiRequests == { Request("GET", PageUrl, [destination |-> "", mode |-> "cors"]) }

InitNetworkFirst ==
  /\ InitStore({DYNAMIC_CACHE})
  /\ EmptyLocalStore
  /\ Idle

CallNetworkFirst ==
  /\ Len(procs) < MaxNetworkFirst
  /\ \E request \in ApiRequests : Call("networkFirst", request)

NextNetworkFirst ==
  \/ CallNetworkFirst
  \/ \E p \in ProcIds, outcome \in NetOutcomes : networkFirstFetch(p, outcome)
  \/ \E p \in ProcIds : networkFirstTimeout(p)
  \/ \E p \in ProcIds, outcome \in NetOutcomes : networkFirstLate(p, outcome)
  \/ \E p \in ProcIds : networkFirstPut(p)
  \/ \E p \in ProcIds : networkFirstFallback(p)
  \/ \E p \in ProcIds : cachePutSettles(p)

\* caches.open and cache.put settle, and the continuation of a settled
\* promise runs.
FairNetworkFirst ==
  \A p \in 1..MaxNetworkFirst :
    /\ WF_vars(p \in ProcIds /\ networkFirstPut(p))
    /\ WF_vars(p \in ProcIds /\ cachePutSettles(p))

SpecNetworkFirst == InitNetworkFirst /\ [][NextNetworkFirst]_vars /\ FairNetworkFirst

\* ------------------------------------------------------------------------
\* SpecRevalidate: concurrent staleWhileRevalidate invocations
\* ------------------------------------------------------------------------
\* The asset request staleWhileRevalidate is called with; it reads no
\* request field but the URL.
AssetRequests == { Request("GET", PageUrl, [destination |-> "image", mode |-> "no-cors"]) }

InitRevalidate ==
  /\ InitStore({DYNAMIC_CACHE})
  /\ EmptyLocalStore
  /\ Idle

CallRevalidate ==
  /\ Len(procs) < MaxRevalidate
  /\ \E request \in AssetRequests : Call("staleWhileRevalidate", request)

NextRevalidate ==
  \/ CallRevalidate
  \/ \E p \in ProcIds : staleWhileRevalidateOpen(p)
  \/ \E p \in ProcIds : staleWhileRevalidateMatch(p)
  \/ \E p \in ProcIds, outcome \in NetOutcomes : staleWhileRevalidateFetch(p, outcome)
  \/ \E p \in ProcIds : cachePutSettles(p)

SpecRevalidate == InitRevalidate /\ [][NextRevalidate]_vars

\* ------------------------------------------------------------------------
\* SpecActivate: the activate event on a store with generations of earlier
\* versions
\* ------------------------------------------------------------------------
InitActivate ==
  /\ InitStore({DYNAMIC_CACHE, CACHE_NAME, OLD_CACHE, OLDER_CACHE})
  /\ EmptyLocalStore
  /\ Idle

NextActivate ==
  \/ activateListener
  \/ activateKeys
  \/ \E cacheName \in Generations : activateDelete(cacheName)
  \/ activateClaim
  \/ activateSettles

SpecActivate == InitActivate /\ [][NextActivate]_vars

\* ------------------------------------------------------------------------
\* SpecMessage: message events on any store
\* ------------------------------------------------------------------------
InitMessage ==
  /\ InitStore({STATIC_CACHE, CACHE_NAME, OLD_CACHE})
  /\ EmptyLocalStore
  /\ Idle

MessageEvent ==
  /\ control.handled < MaxMessages
  /\ \E event \in MessageEvents : messageListener(event)

NextMessage ==
  \/ MessageEvent
  \/ \E c \in ClearIds : clearAllCachesKeys(c)
  \/ \E c \in ClearIds, cacheName \in Generations : clearAllCachesDelete(c, cacheName)
  \/ \E c \in ClearIds : clearAllCachesSettles(c)

SpecMessage == InitMessage /\ [][NextMessage]_vars

\* ------------------------------------------------------------------------
\* SpecActive: activation on a store left by an earlier version, then the
\* strategies serving requests
\* ------------------------------------------------------------------------
InitActive ==
  /\ InitStore({OLD_CACHE})
  /\ EmptyLocalStore
  /\ Idle

\* The page navigation the strategies are called with.
NavigateRequests ==
  { Request("GET", PageUrl, [destination |-> "document", mode |-> "navigate"]) }

\* Fetch events reach the worker once it is activated.
CallActive ==
  /\ activate.pc = "activated"
  /\ Len(procs) < MaxActiveCalls
  /\ \E strategy \in Strategies, request \in NavigateRequests : Call(strategy, request)

NextActive ==
  \/ activateListener
  \/ activateKeys
  \/ \E cacheName \in Generations : activateDelete(cacheName)
  \/ activateClaim
  \/ activateSettles
  \/ CallActive
  \/ \E p \in ProcIds : cacheFirstMatch(p)
  \/ \E p \in ProcIds, outcome \in NetOutcomes : cacheFirstFetch(p, outcome)
  \/ \E p \in ProcIds : cacheFirstPut(p)
  \/ \E p \in ProcIds, outcome \in NetOutcomes : networkFirstFetch(p, outcome)
  \/ \E p \in ProcIds : networkFirstTimeout(p)
  \/ \E p \in ProcIds, outcome \in NetOutcomes : networkFirstLate(p, outcome)
  \/ \E p \in ProcIds : networkFirstPut(p)
  \/ \E p \in ProcIds : networkFirstFallback(p)
  \/ \E p \in ProcIds : staleWhileRevalidateOpen(p)
  \/ \E p \in ProcIds : staleWhileRevalidateMatch(p)
  \/ \E p \in ProcIds, outcome \in NetOutcomes : staleWhileRevalidateFetch(p, outcome)
  \/ \E p \in ProcIds, outcome \in NetOutcomes : networkFirstWithOfflineFetch(p, outcome)
  \/ \E p \in ProcIds : networkFirstWithOfflinePut(p)
  \/ \E p \in ProcIds : networkFirstWithOfflineFallback(p)
  \/ \E p \in ProcIds : networkFirstWithOfflineOffline(p)
  \/ \E p \in ProcIds : cachePutSettles(p)

SpecActive == InitActive /\ [][NextActive]_vars

\* ------------------------------------------------------------------------
\* SpecInstall: the install event on any store
\* ------------------------------------------------------------------------
InitInstall ==
  /\ InitStore({STATIC_CACHE, OLD_CACHE})
  /\ EmptyLocalStore
  /\ Idle

NextInstall ==
  \/ installListener
  \/ installOpen
  \/ \E body \in Bodies : installAddAll(body)
  \/ installAddAllRejects
  \/ installSkipWaiting
  \/ installTimeout

SpecInstall == InitInstall /\ [][NextInstall]_vars

\* ------------------------------------------------------------------------
\* SpecSync: background sync with a Local Data Store that holds batches
\* ------------------------------------------------------------------------
\* What the store resolves for a key: no value (present is FALSE) or an array.
Batches ==
  { [present |-> FALSE, items |-> <<>>],
    [present |-> TRUE, items |-> <<>>],
    [present |-> TRUE, items |-> <<"record">>] }

InitSync ==
  /\ InitStore({})
  /\ localStore \in [Domains -> Batches]
  /\ Idle

SyncIds == 1..Len(syncs)

NextSync ==
  \/ triggerBackgroundSync
  \/ \E tag \in SyncTags : Len(syncs) < MaxSyncs /\ syncListener(tag)
  \/ \E i \in SyncIds : syncRead(i)
  \/ \E i \in SyncIds, outcome \in PostOutcomes : syncTournamentData(i, outcome)
  \/ \E i \in SyncIds, outcome \in PostOutcomes : syncPlayerData(i, outcome)

SpecSync == InitSync /\ [][NextSync]_vars

\* ------------------------------------------------------------------------
\* SpecTournamentSync: the tournament sync under a platform that fires every
\* registered "sync-tournament-data" tag and an endpoint that recovers
\* ------------------------------------------------------------------------
\* The POSTs of syncTournamentData that were answered with a failure.
FailedPosts ==
  { i \in SyncIds : /\ syncs[i].domain = "tournaments" /\ syncs[i].pc = "done"
                    /\ syncs[i].posts > 0 /\ ~syncs[i].broadcast }

\* The platform fires the registered tournament tag.  The endpoint fails at
\* most MaxRetries POSTs, so MaxRetries + 1 invocations are all that is needed.
TournamentSyncEvent ==
  /\ Len(syncs) <= MaxRetries
  /\ syncListener("sync-tournament-data")

\* The endpoint answers a POST: with a failure while it has not recovered,
\* with a success status at any time.
TournamentPostSettles(i) ==
  \E outcome \in PostOutcomes :
    /\ (outcome # TypeError /\ ok(outcome)) \/ Cardinality(FailedPosts) < MaxRetries
    /\ syncTournamentData(i, outcome)

NextTournamentSync ==
  \/ triggerBackgroundSync
  \/ TournamentSyncEvent
  \/ \E i \in SyncIds : syncRead(i)
  \/ \E i \in SyncIds : TournamentPostSettles(i)

\* The platform fires a tag that stays registered; the read of the store
\* resolves; every POST is answered.
FairTournamentSync ==
  /\ WF_vars(TournamentSyncEvent)
  /\ \A i \in 1..(MaxRetries + 1) :
       /\ WF_vars(i \in SyncIds /\ syncRead(i))
       /\ WF_vars(i \in SyncIds /\ TournamentPostSettles(i))

SpecTournamentSync == InitSync /\ [][NextTournamentSync]_vars /\ FairTournamentSync

\* ------------------------------------------------------------------------
\* Properties
\* ------------------------------------------------------------------------
EventIds == 1..Len(events)

\* pat is a prefix of s.
startsWith(s, pat) ==
  Len(pat) <= Len(s) /\ SubSeq(s, 1, Len(pat)) = pat

\* The rule table of the design: static assets match as literals (the URL
\* is the asset's URL), dynamic assets as URL prefixes, API markers as
\* substrings, then the destination.
ruleTable(request) ==
  LET url == Urls[request.url] IN
  IF some(STATIC_ASSETS, LAMBDA asset : url = Resolve(asset)) THEN "cacheFirst"
  ELSE IF some(DYNAMIC_ASSETS, LAMBDA pattern : startsWith(url, pattern)) THEN "staleWhileRevalidate"
  ELSE IF includes(url, <<"firebase">>) \/ includes(url, <<"googleapis">>) THEN "networkFirst"
  ELSE IF request.destination = "document" THEN "networkFirstWithOfflineFallback"
  ELSE "networkFirst"

\* C1: for every GET request the listener hands respondWith the strategy of
\* the ordered first-match rule table (static literal, dynamic prefix, API
\* marker, document destination, default); a GET navigation to a document
\* that is no static asset goes to networkFirstWithOffline.
C1_RoutingIsRuleTable ==
  \A e \in EventIds :
    events[e].request.method = "GET" =>
      events[e].strategy =
        (IF ruleTable(events[e].request) = "networkFirstWithOfflineFallback"
         THEN "networkFirstWithOffline" ELSE ruleTable(events[e].request))

\* C2: every strategy invocation that returns resolves to a response (a
\* cached one, a network one or a synthetic 503), never to undefined.
C2_StrategyResolvesToResponse ==
  \A p \in ProcIds :
    procs[p].returned =>
      /\ procs[p].result # undefined
      /\ \/ procs[p].result = procs[p].cachedResponse
         \/ procs[p].result = procs[p].networkResponse /\ procs[p].result.status # 0
         \/ procs[p].result = procs[p].offlineResponse
         \/ procs[p].result.status = 503

\* C3: networkFirstWithOffline whose fetch failed and whose request has no
\* cache entry returns, for a navigation, the cached offline document when
\* there is one and the synthetic 503 HTML response when there is none, and
\* for any other request the synthetic 503.
C3_OfflineFallback ==
  \A p \in ProcIds :
    ( /\ procs[p].strategy = "networkFirstWithOffline"
      /\ procs[p].returned
      /\ procs[p].networkResponse = TypeError
      /\ procs[p].cachedResponse = undefined ) =>
        IF procs[p].mode = "navigate"
        THEN IF procs[p].offlineResponse \notin {undefined, pending}
             THEN procs[p].result = procs[p].offlineResponse
             ELSE procs[p].result = AppOffline503
        ELSE procs[p].result = Offline503

\* C5: cacheFirst serves a hit only from the STATIC generation: when STATIC
\* has no entry for the request it goes to the network, whatever the other
\* generations hold, and when it serves a hit it issues no fetch.
C5_HitOnlyFromStatic ==
  [][ \A p \in ProcIds :
        ( procs[p].strategy = "cacheFirst" /\ procs[p].pc = "match" /\ procs'[p].pc # "match" ) =>
          IF cacheMatch(STATIC_CACHE, procs[p].url) = undefined
          THEN ~procs'[p].returned /\ procs'[p].pc = "fetch" /\ procs'[p].fetches = 1
          ELSE /\ procs'[p].returned
               /\ procs'[p].result = cacheMatch(STATIC_CACHE, procs[p].url)
               /\ procs'[p].fetches = 0 ]_vars

\* C7: a request whose method is not GET is not intercepted: respondWith is
\* not called, no strategy starts and the Cache Store is left as it is.
C7_NonGetNotIntercepted ==
  [][ ( Len(events') = Len(events) + 1 /\ events'[Len(events')].request.method # "GET" ) =>
        /\ events'[Len(events')].respondWith = 0
        /\ events'[Len(events')].strategy = "none"
        /\ procs' = procs
        /\ cacheNames' = cacheNames
        /\ entries' = entries ]_vars

C7_Witness ==
  \E e \in EventIds : events[e].request.method = "POST" /\ events[e].respondWith = 0

\* C8: every GET request the listener receives gets exactly one strategy:
\* respondWith is called once, with one of the four strategy functions, and
\* that one strategy is the only one started for the event.
C8_ExactlyOneStrategy ==
  /\ \A e \in EventIds :
       events[e].request.method = "GET" =>
         events[e].respondWith = 1 /\ events[e].strategy \in Strategies
  /\ LET gets == { e \in EventIds : events[e].request.method = "GET" } IN
       /\ Len(procs) = Cardinality(gets)
       /\ \A e \in gets :
            LET p == Cardinality({ f \in gets : f <= e }) IN
              /\ procs[p].strategy = events[e].strategy
              /\ procs[p].url = events[e].request.url

C8_Witness ==
  \E e \in EventIds :
    /\ events[e].request.method = "GET"
    /\ events[e].request.destination = "image"
    /\ events[e].respondWith = 1
    /\ Len(procs) = 1

\* What a strategy got from the network, in time or late.
received(proc) == {proc.networkResponse, proc.lateResponse} \ {pending, TypeError, Timeout}

\* The status of a response is outside 200..299.
notOk(response) == response.status < 200 \/ response.status > 299

StoredResponsesOk ==
  \A name \in Range(cacheNames), url \in UrlIds :
    entries[name][url] # undefined => ~notOk(entries[name][url])

\* C9 as stated: in every strategy a network response that is not ok is
\* returned to the caller as it is and causes no cache put, so no non-ok
\* response is ever stored.
C9_NotOkReturnedNotCached ==
  /\ \A p \in ProcIds :
       \A response \in received(procs[p]) :
         notOk(response) =>
           /\ procs[p].put = "none"
           /\ procs[p].returned => procs[p].result = response
  /\ StoredResponsesOk

\* C9 amended: a network response that is not ok causes no cache put in any
\* strategy, so no non-ok response is ever stored; it is returned as it is
\* by cacheFirst and networkFirstWithOffline, by networkFirst when it
\* arrives before the timeout, and by staleWhileRevalidate on a cache miss.
\* staleWhileRevalidate on a cache hit returns the cached entry, and
\* networkFirst after its timeout returns the cache fallback.
C9_NotOkNeverCached ==
  /\ \A p \in ProcIds :
       \A response \in received(procs[p]) :
         notOk(response) =>
           /\ procs[p].put = "none"
           /\ IF response = procs[p].lateResponse
              THEN procs[p].returned =>
                     procs[p].result = or(procs[p].cachedResponse, Offline503)
              ELSE /\ procs[p].returned
                   /\ IF procs[p].strategy = "staleWhileRevalidate"
                         /\ procs[p].cachedResponse # undefined
                      THEN procs[p].result = procs[p].cachedResponse
                      ELSE procs[p].result = response
  /\ StoredResponsesOk

C9_Witness ==
  /\ \E p \in ProcIds :
       /\ procs[p].strategy = "staleWhileRevalidate"
       /\ procs[p].networkResponse = NetNotOk
       /\ procs[p].result = NetNotOk
       /\ procs[p].put = "none"
  /\ \E name \in Range(cacheNames), url \in UrlIds : entries[name][url] # undefined

\* C10: a cacheFirst call for a key that is cached nowhere, answered by an
\* ok network response, returns that response; a second call for the key,
\* made after the first returned and with the network disabled, returns the
\* same content and not a 503.
C10_CacheFirstIdempotent ==
  \A p \in ProcIds : \A q \in procs[p].after :
    ( /\ procs[q].strategy = "cacheFirst" /\ procs[p].strategy = "cacheFirst"
      /\ procs[q].url = procs[p].url
      /\ procs[q].cachedResponse = undefined
      /\ procs[q].networkResponse # TypeError /\ ok(procs[q].networkResponse)
      /\ procs[p].returned
      /\ procs[p].networkResponse \in {pending, TypeError} ) =>
        /\ procs[q].result = procs[q].networkResponse
        /\ procs[p].result = procs[q].networkResponse


\* Every static asset is stored in STATIC as the install fetched it.
AllStaticStored ==
  /\ STATIC_CACHE \in Range(cacheNames)
  /\ \A url \in StaticUrlIds : entries[STATIC_CACHE][url] = NetOk(install.body)

\* C6 as stated: the install event's waitUntil does not settle successfully
\* before the population has stored every static asset in STATIC.
C6_InstallWaitsForPopulation ==
  [][ ( install.waitUntil # "fulfilled" /\ install'.waitUntil = "fulfilled" ) =>
        install.pc = "skipWaiting" /\ AllStaticStored ]_vars

\* C6 amended: the install event's waitUntil settles successfully only
\* when the population has stored every static asset in STATIC (and
\* skipWaiting resolves), or when the 10-second install timer fires.
C6_InstallWaitsForPopulationOrTimer ==
  [][ ( install.waitUntil # "fulfilled" /\ install'.waitUntil = "fulfilled" ) =>
        \/ install.timer = "set" /\ install'.timer = "fired"
        \/ install.pc = "skipWaiting" /\ install'.pc = "resolved" /\ AllStaticStored ]_vars

C6_Witness ==
  /\ install.waitUntil = "fulfilled"
  /\ install.timer = "set"
  /\ install.pc = "resolved"
  /\ AllStaticStored

C11_TimeoutFallsBackToCache ==
  [][ \A p \in ProcIds :
        ( procs[p].strategy = "networkFirst" /\ procs[p].networkResponse = Timeout ) =>
          /\ ( ~procs[p].returned /\ procs'[p].returned ) =>
               procs'[p].result =
                 (IF cachesMatch(procs[p].url) # undefined
                  THEN cachesMatch(procs[p].url) ELSE Offline503)
          /\ procs[p].returned =>
               procs'[p].returned /\ procs'[p].result = procs[p].result ]_vars

C11_Witness ==
  \E p \in ProcIds :
    /\ procs[p].strategy = "networkFirst"
    /\ procs[p].networkResponse = Timeout
    /\ procs[p].returned
    /\ procs[p].result = NetOk(InitialBody(DYNAMIC_CACHE))
    /\ procs[p].lateResponse \in { NetOk(b) : b \in Bodies }


\* C12: in networkFirst, when the network answers with an ok status before
\* the timeout, the invocation returns that response and the DYNAMIC
\* generation eventually holds it under the request's key.
C12_OkResponseReturnedAndCached ==
  \A p \in 1..MaxNetworkFirst :
    ( /\ p \in ProcIds
      /\ procs[p].strategy = "networkFirst"
      /\ procs[p].pc = "open" )
    ~> ( /\ p \in ProcIds
         /\ procs[p].returned
         /\ procs[p].result = procs[p].networkResponse
         /\ procs[p].result \in { NetOk(b) : b \in Bodies }
         /\ cacheMatch(DYNAMIC_CACHE, procs[p].url) = procs[p].networkResponse )

C12_Witness ==
  \E p \in ProcIds :
    /\ procs[p].strategy = "networkFirst"
    /\ procs[p].networkResponse \in { NetOk(b) : b \in Bodies }
    /\ procs[p].returned
    /\ procs[p].put = "done"
    /\ cacheMatch(DYNAMIC_CACHE, procs[p].url) = procs[p].networkResponse


\* C13: in staleWhileRevalidate, when DYNAMIC holds an entry for the request
\* at the lookup, the invocation returns that entry at the lookup, before the
\* fetch has settled, and whatever the fetch settles to (or if it never
\* settles) that entry stays what it returned.
C13_CachedReturnedAtOnce ==
  [][ \A p \in ProcIds :
        procs[p].strategy = "staleWhileRevalidate" =>
          /\ ( /\ procs[p].pc = "match" /\ procs'[p].pc # "match"
               /\ cacheMatch(DYNAMIC_CACHE, procs[p].url) # undefined ) =>
                 /\ procs'[p].returned
                 /\ procs'[p].result = cacheMatch(DYNAMIC_CACHE, procs[p].url)
                 /\ procs'[p].networkResponse = pending
          /\ ( procs[p].returned /\ procs[p].cachedResponse # undefined ) =>
               procs'[p].returned /\ procs'[p].result = procs[p].cachedResponse ]_vars

C13_Witness ==
  \E p \in ProcIds :
    /\ procs[p].strategy = "staleWhileRevalidate"
    /\ procs[p].cachedResponse = NetOk(InitialBody(DYNAMIC_CACHE))
    /\ procs[p].networkResponse \in { NetOk(b) : b \in Bodies }
    /\ procs[p].pc = "done"
    /\ procs[p].result = procs[p].cachedResponse

\* C14: every staleWhileRevalidate invocation issues exactly one fetch, on a
\* hit and on a miss; once that fetch has resolved with an ok response the
\* DYNAMIC entry of the key is that response, so a later call for the key
\* (given nothing newer by the network) returns it.
C14_RefreshSeenByNextCall ==
  /\ \A p \in ProcIds :
       procs[p].strategy = "staleWhileRevalidate" =>
         procs[p].fetches = (IF procs[p].pc \in {"fetch", "done"} THEN 1 ELSE 0)
  /\ \A p \in ProcIds : \A q \in procs[p].after :
       ( /\ procs[q].strategy = "staleWhileRevalidate"
         /\ procs[p].strategy = "staleWhileRevalidate"
         /\ procs[q].url = procs[p].url
         /\ procs[q].cachedResponse = undefined
         /\ procs[q].networkResponse \in { NetOk(b) : b \in Bodies }
         /\ procs[p].returned
         /\ procs[p].pc = "done"
         /\ procs[p].networkResponse = TypeError ) =>
           procs[p].result = procs[q].networkResponse


\* C15: when activation is reported finished, every generation of the start
\* of activation that is not named as the current static, dynamic or umbrella
\* generation is gone, the current-named ones of the start still exist with
\* the entries they had, and clients.claim() has completed.
CurrentNames == {"padel-static-v2.1.0", "padel-dynamic-v2.1.0", "padel-tournament-v2.1.0"}

C15_ActivationSweepsOldGenerations ==
  activate.waitUntil = "fulfilled" =>
    /\ \A name \in Range(activate.startNames) :
         IF name \in CurrentNames
         THEN name \in Range(cacheNames) /\ entries[name] = activate.startEntries[name]
         ELSE name \notin Range(cacheNames)
    /\ activate.claim = "done"

C15_Witness ==
  /\ activate.waitUntil = "fulfilled"
  /\ {OLD_CACHE, OLDER_CACHE, CACHE_NAME, DYNAMIC_CACHE} \subseteq Range(activate.startNames)
  /\ activate.startEntries[CACHE_NAME][PageUrl] # undefined
  /\ activate.startEntries[OLD_CACHE][PageUrl] # undefined


\* C16: when the install timer fires while the population of the static
\* generation has neither completed nor failed, the install is reported
\* complete (fulfilled) at that step; and the firing of the timer never
\* turns the install into a rejected one.
C16_TimerResolvesInstall ==
  [][ ( install.timer = "set" /\ install'.timer = "fired" ) =>
        /\ install.pc \in {"open", "addAll"} =>
             install.waitUntil = "pending" /\ install'.waitUntil = "fulfilled"
        /\ install'.waitUntil = "rejected" => install.waitUntil = "rejected" ]_vars

C16_Witness ==
  /\ install.timer = "fired"
  /\ install.pc = "addAll"
  /\ install.waitUntil = "fulfilled"
  /\ ~AllStaticStored


\* C17: when a clearAllCaches started by a CLEAR_CACHE message completes,
\* none of the generations it enumerated exists, whatever their names, the
\* current static, dynamic and umbrella generations included.
C17_ClearAllDeletesEveryGeneration ==
  \A c \in ClearIds :
    control.clears[c].pc = "done" =>
      \A name \in control.clears[c].enumerated : name \notin Range(cacheNames)

C17_Witness ==
  \E c \in ClearIds :
    /\ control.clears[c].pc = "done"
    /\ control.clears[c].enumerated = {STATIC_CACHE, CACHE_NAME, OLD_CACHE}
    /\ cacheNames = <<>>

\* C19: handling a message that has no data, or whose type is none of
\* SKIP_WAITING, GET_VERSION and CLEAR_CACHE, changes nothing: the store,
\* the skipWaiting calls, the replies, the broadcasts, the errors raised and
\* the clearAllCaches invocations are as before.
C19_UnrecognizedMessageIgnored ==
  [][ ( /\ control'.handled = control.handled + 1
        /\ \/ ~control'.event.present
           \/ control'.event.type \notin {"SKIP_WAITING", "GET_VERSION", "CLEAR_CACHE"} ) =>
        /\ cacheNames' = cacheNames /\ entries' = entries
        /\ control'.skipWaiting = control.skipWaiting
        /\ control'.replies = control.replies
        /\ control'.errors = control.errors
        /\ control'.clears = control.clears
        /\ messages' = messages ]_vars

C19_Witness ==
  /\ control.handled = 2
  /\ ~control.event.present
  /\ control.skipWaiting = 0 /\ control.replies = <<>> /\ control.errors = 0
  /\ control.clears = <<>>
  /\ cacheNames # <<>>


\* C18: for both domains, a sync invocation that reads an absent or empty
\* batch ends at the read: no POST is issued, no retry tag is registered, no
\* message is broadcast, and the invocation is done without an error; nothing
\* happens to it afterwards.
C18_EmptyBatchDoesNothing ==
  [][ \A i \in SyncIds :
        ( \/ ~localStore[syncs[i].domain].present
          \/ localStore[syncs[i].domain].items = <<>> ) =>
          /\ ( syncs[i].pc = "read" /\ syncs'[i].pc # "read" ) =>
               /\ syncs'[i] = [syncs[i] EXCEPT !.pc = "done"]
               /\ syncs'[i].posts = 0 /\ syncs'[i].registered = "none" /\ ~syncs'[i].broadcast
               /\ syncTags' = syncTags
               /\ messages' = messages
          /\ syncs[i].pc = "done" => syncs'[i] = syncs[i] ]_vars

C18_Witness ==
  /\ ~localStore["tournaments"].present
  /\ localStore["players"] = [present |-> TRUE, items |-> <<>>]
  /\ \E i, j \in SyncIds :
       /\ syncs[i].domain = "tournaments" /\ syncs[j].domain = "players"
       /\ syncs[i].pc = "done" /\ syncs[j].pc = "done"
       /\ syncs[i].posts = 0 /\ syncs[j].posts = 0
  /\ messages = <<>>
  /\ syncTags = {}


\* C20: once activation has finished, whatever strategies run and however
\* they interleave, every generation of the store is named as the current
\* static, dynamic or umbrella generation.
C20_OnlyCurrentGenerations ==
  activate.waitUntil = "fulfilled" => Range(cacheNames) \subseteq CurrentNames

C20_Witness ==
  /\ activate.waitUntil = "fulfilled"
  /\ OLD_CACHE \in Range(activate.startNames)
  /\ Range(cacheNames) = {STATIC_CACHE, DYNAMIC_CACHE}
  /\ \E p, q \in ProcIds :
       /\ procs[p].putCache = STATIC_CACHE /\ procs[p].put = "done"
       /\ procs[q].putCache = DYNAMIC_CACHE /\ procs[q].put = "done"


====
